---- MODULE Spec2Model ----
(***************************************************************************)
(* L2script: a line-oriented script interpreter driving drawable shapes.   *)
(*                                                                         *)
(* The model follows the two source files:                                 *)
(*   src/src/public/shape.ts   Point, Stroke, Shape and its variants       *)
(*   src/unnamed/part_000      the registry, the commands and render       *)
(* forEachPromise and generateName are imported from ./util, which is not  *)
(* among the sources; they are modelled from the specification.            *)
(*                                                                         *)
(* JavaScript values are represented as follows.                           *)
(*   strings      TLA+ strings, read character by character with SubSeq    *)
(*   numbers      records [k |-> "num", n |-> i] for the integer i and     *)
(*                [k |-> "nan", n |-> 0] for NaN; the scripts of the model *)
(*                hold decimal integers only, so no fraction is ever read  *)
(*   null         as a number argument the record [k |-> "null", n |-> 0]; *)
(*                as a string-or-null value the string JsNull              *)
(*   undefined    the string JsUndefined                                   *)
(* JsNull and JsUndefined contain a blank, so they differ from every token *)
(* that line.split(' ') can produce.                                       *)
(***************************************************************************)
EXTENDS Integers, Sequences, FiniteSets, TLC

(***************************************************************************)
(* Bounds of the model.                                                    *)
(***************************************************************************)
\* the longest script has MaxLines lines
MaxLines == 3
\* render is invoked at most MaxRuns times (the call at load included)
MaxRuns == 2

(***************************************************************************)
(* Strings.                                                                *)
(***************************************************************************)
JsNull == "null value"
JsUndefined == "undefined value"

\* String(v) and `${v}` for a value that is a string, null or undefined
JsString(v) ==
    IF v = JsNull THEN "null" ELSE IF v = JsUndefined THEN "undefined" ELSE v

\* JavaScript truthiness of a value that is a string, null or undefined
Truthy(v) == v # JsNull /\ v # JsUndefined /\ v # ""

Ch(s, i) == SubSeq(s, i, i)

LowerLetters == "abcdefghijklmnopqrstuvwxyz"
UpperLetters == "ABCDEFGHIJKLMNOPQRSTUVWXYZ"
Digits == "0123456789"

\* the position of the one-character string c in s, or 0
IndexOf(s, c) ==
    LET hits == {i \in 1..Len(s) : Ch(s, i) = c}
    IN  IF hits = {} THEN 0 ELSE CHOOSE i \in hits : \A j \in hits : i <= j

IsLetter(c) == IndexOf(LowerLetters, c) > 0 \/ IndexOf(UpperLetters, c) > 0
IsDigit(c) == IndexOf(Digits, c) > 0
\* \s of a regular expression, for the characters a line can hold
IsSpace(c) == c = " " \/ c = "\t"

RECURSIVE ToLower(_)
ToLower(s) ==
    IF Len(s) = 0 THEN ""
    ELSE LET c == Ch(s, 1)
             u == IndexOf(UpperLetters, c)
         IN  (IF u > 0 THEN Ch(LowerLetters, u) ELSE c) \o ToLower(SubSeq(s, 2, Len(s)))

\* String.prototype.trim
RECURSIVE TrimLeft(_)
TrimLeft(s) ==
    IF Len(s) > 0 /\ IsSpace(Ch(s, 1)) THEN TrimLeft(SubSeq(s, 2, Len(s))) ELSE s

RECURSIVE TrimRight(_)
TrimRight(s) ==
    IF Len(s) > 0 /\ IsSpace(Ch(s, Len(s))) THEN TrimRight(SubSeq(s, 1, Len(s) - 1)) ELSE s

Trim(s) == TrimRight(TrimLeft(s))

\* String.prototype.split(sep) for a one-character separator: the sequence
\* of the pieces between separators (a single empty piece for "")
RECURSIVE SplitFrom(_, _, _, _)
SplitFrom(s, sep, i, piece) ==
    IF i > Len(s) THEN <<piece>>
    ELSE IF Ch(s, i) = sep THEN <<piece>> \o SplitFrom(s, sep, i + 1, "")
    ELSE SplitFrom(s, sep, i + 1, piece \o Ch(s, i))

Split(s, sep) == SplitFrom(s, sep, 1, "")

\* Array.prototype.join(sep)
RECURSIVE Join(_, _)
Join(ws, sep) ==
    IF Len(ws) = 0 THEN ""
    ELSE IF Len(ws) = 1 THEN ws[1]
    ELSE ws[1] \o sep \o Join(Tail(ws), sep)

\* words[i] of a JavaScript array, 0-based: undefined past the end
At(words, i) == IF i + 1 <= Len(words) THEN words[i + 1] ELSE JsUndefined

\* words.slice(i)
Slice(words, i) == IF i + 1 <= Len(words) THEN SubSeq(words, i + 1, Len(words)) ELSE <<>>

(***************************************************************************)
(* Numbers.                                                                *)
(***************************************************************************)
Num(i) == [k |-> "num", n |-> i]
NaN == [k |-> "nan", n |-> 0]
Null == [k |-> "null", n |-> 0]

RECURSIVE DigitsValue(_, _)
DigitsValue(s, acc) ==
    IF Len(s) = 0 THEN acc
    ELSE DigitsValue(SubSeq(s, 2, Len(s)), 10 * acc + (IndexOf(Digits, Ch(s, 1)) - 1))

AllDigits(s) == Len(s) > 0 /\ \A i \in 1..Len(s) : IsDigit(Ch(s, i))

\* Number(v) for a value that is a string, null or undefined: white space is
\* trimmed, the empty string is 0, an optionally signed run of digits is its
\* value, anything else is NaN
ToNumber(v) ==
    IF v = JsUndefined THEN NaN
    ELSE IF v = JsNull THEN Num(0)
    ELSE LET t == Trim(v)
             body == IF Len(t) > 0 /\ Ch(t, 1) \in {"-", "+"} THEN SubSeq(t, 2, Len(t)) ELSE t
         IN  IF t = "" THEN Num(0)
             ELSE IF ~AllDigits(body) THEN NaN
             ELSE IF Ch(t, 1) = "-" THEN Num(0 - DigitsValue(body, 0))
             ELSE Num(DigitsValue(body, 0))

\* a + b
NumAdd(a, b) == IF a.k = "nan" \/ b.k = "nan" THEN NaN ELSE Num(a.n + b.n)

\* a * b
NumMul(a, b) == IF a.k = "nan" \/ b.k = "nan" THEN NaN ELSE Num(a.n * b.n)

\* a > b: false when either side is NaN
NumGt(a, b) == a.k = "num" /\ b.k = "num" /\ a.n > b.n

\* String(a) of a number
NumString(a) == IF a.k = "nan" THEN "NaN" ELSE IF a.k = "null" THEN "null" ELSE ToString(a.n)

\* a || b for numbers: 0 and NaN are falsy
NumOr(a, b) == IF a.k = "num" /\ a.n # 0 THEN a ELSE b

\* String(d / 2) for the number d / 2, d an integer or NaN
HalfString(d) ==
    IF d.k = "nan" THEN "NaN"
    ELSE IF d.n % 2 = 0 THEN ToString(d.n \div 2)
    ELSE IF d.n > 0 THEN ToString((d.n - 1) \div 2) \o ".5"
    ELSE "-" \o ToString(((0 - d.n) - 1) \div 2) \o ".5"

(***************************************************************************)
(* shape.ts: Point.                                                        *)
(***************************************************************************)
Point(x, y) == [x |-> x, y |-> y]

PointMoveBy(p, x, y) ==
    [x |-> NumAdd(p.x, IF x = Null THEN Num(0) ELSE x),
     y |-> NumAdd(p.y, IF y = Null THEN Num(0) ELSE y)]

\* a mutant of PointMoveTo: a null argument is taken as 0
PointMoveToNullIsZero(p, x, y) ==
    [x |-> IF x = Null THEN Num(0) ELSE x,
     y |-> IF y = Null THEN Num(0) ELSE y]

PointMoveTo(p, x, y) ==
    [x |-> IF x = Null THEN p.x ELSE x,
     y |-> IF y = Null THEN p.y ELSE y]

(***************************************************************************)
(* shape.ts: Stroke.  A constructor argument that is undefined takes the   *)
(* parameter's default.                                                    *)
(***************************************************************************)
Stroke(color, width) ==
    [color |-> IF color = JsUndefined THEN "transparent" ELSE color,
     width |-> width]

(***************************************************************************)
(* The element a shape draws to: its style.fill, its text content and its  *)
(* attributes (null while an attribute was never set).  The colour tokens  *)
(* of the model's scripts are colour keywords, which style.fill keeps as   *)
(* written.                                                                *)
(***************************************************************************)
AttrNames ==
    {"x", "y", "width", "height", "cx", "cy", "rx", "ry",
     "x1", "y1", "x2", "y2", "stroke", "stroke-width"}

createElementNS(tag) ==
    [tag |-> tag, styleFill |-> "", textContent |-> "",
     attrs |-> [a \in AttrNames |-> JsNull]]

setAttributeNS(el, name, value) == [el EXCEPT !.attrs[name] = value]

StyleSet(old, v) ==
    IF v = JsUndefined THEN old ELSE IF v = JsNull THEN "" ELSE v

(***************************************************************************)
(* shape.ts: Shape and its variants Text, Rectangle, Circle and Line.  The *)
(* variant of a shape is told by its type: 'text', 'rect', 'ellipse' or    *)
(* 'line'.  A shape owns its two Points, its Stroke and its element: no    *)
(* operation of either source file stores one of them in a second shape,   *)
(* so they are held by value.                                              *)
(***************************************************************************)
Shape(type, name) ==
    [type |-> type, name |-> name,
     points |-> <<Point(Num(0), Num(0)), Point(Num(100), Num(100))>>,
     stroke |-> Stroke(JsUndefined, Num(1)),
     domElement |-> createElementNS(type)]

TextCreate(name) == Shape("text", name)
RectangleCreate(name) == Shape("rect", name)
CircleCreate(name) == Shape("ellipse", name)
LineCreate(name) == Shape("line", name)

ShapeX(o) == o.points[1].x
ShapeY(o) == o.points[1].y
ShapeWidth(o) == o.points[2].x
ShapeHeight(o) == o.points[2].y

\* get fill: the style's fill; for a Line the stroke attribute
ShapeFill(o) ==
    IF o.type = "line" THEN o.domElement.attrs["stroke"] ELSE o.domElement.styleFill

\* set fill
ShapeSetFill(o, value) ==
    IF o.type = "line"
    THEN [o EXCEPT !.domElement = setAttributeNS(@, "stroke", JsString(value))]
    ELSE [o EXCEPT !.domElement.styleFill = StyleSet(@, value)]

\* set text
ShapeSetText(o, value) == [o EXCEPT !.domElement.textContent = value]

\* the attributes a variant writes after its origin changed to p0; x and y
\* are the arguments of the call (Line.moveTo writes them, not the origin)
OriginAttrs(o, p0, x, y, absolute) ==
    LET el == o.domElement
        p1 == o.points[2]
    IN  IF o.type = "ellipse"
        THEN setAttributeNS(
                 setAttributeNS(el, "cx", HalfString(NumAdd(NumMul(Num(2), p0.x), p1.x))),
                 "cy", HalfString(NumAdd(NumMul(Num(2), p0.y), p1.y)))
        ELSE IF o.type = "line"
        THEN IF absolute
             THEN setAttributeNS(setAttributeNS(el, "x1", NumString(x)), "y1", NumString(y))
             ELSE setAttributeNS(setAttributeNS(el, "x1", NumString(p0.x)), "y1", NumString(p0.y))
        ELSE setAttributeNS(setAttributeNS(el, "x", NumString(p0.x)), "y", NumString(p0.y))

\* the attributes a variant writes after its extent changed to p1
ExtentAttrs(o, p1) ==
    LET el == o.domElement
        p0 == o.points[1]
    IN  IF o.type = "ellipse"
        THEN setAttributeNS(setAttributeNS(el, "rx", HalfString(p1.x)), "ry", HalfString(p1.y))
        ELSE IF o.type = "line"
        THEN setAttributeNS(
                 setAttributeNS(el, "x2", NumString(NumAdd(p0.x, p1.x))),
                 "y2", NumString(NumAdd(p0.y, p1.y)))
        ELSE setAttributeNS(setAttributeNS(el, "width", NumString(p1.x)), "height", NumString(p1.y))

ShapeMoveBy(o, x, y) ==
    LET p0 == PointMoveBy(o.points[1], x, y)
    IN  [o EXCEPT !.points[1] = p0, !.domElement = OriginAttrs(o, p0, x, y, FALSE)]

ShapeMoveTo(o, x, y) ==
    LET p0 == PointMoveTo(o.points[1], x, y)
    IN  [o EXCEPT !.points[1] = p0, !.domElement = OriginAttrs(o, p0, x, y, TRUE)]

ShapeSizeBy(o, x, y) ==
    LET p1 == PointMoveBy(o.points[2], x, y)
    IN  [o EXCEPT !.points[2] = p1, !.domElement = ExtentAttrs(o, p1)]

ShapeSizeTo(o, x, y) ==
    LET p1 == PointMoveTo(o.points[2], x, y)
    IN  [o EXCEPT !.points[2] = p1, !.domElement = ExtentAttrs(o, p1)]

\* color is a string, null or undefined; width a number or Null
ShapeSetStroke(o, color, width) ==
    LET st == Stroke(IF color = JsNull THEN o.stroke.color ELSE color,
                     IF width = Null THEN o.stroke.width ELSE width)
    IN  [o EXCEPT !.stroke = st,
                  !.domElement = setAttributeNS(
                      setAttributeNS(o.domElement, "stroke", st.color),
                      "stroke-width", NumString(st.width))]

(***************************************************************************)
(* part_000: settings.                                                     *)
(***************************************************************************)
\* the keys of objectTypes, in the order of the table
objectTypeKeys == <<"text", "circle", "ellipse", "rectangle", "rect", "line", "polygon">>

\* objectTypes[type](name); shape.ts defines no Polygon variant, and the
\* scripts of the model create none
objectTypes(type, name) ==
    CASE type = "text" -> TextCreate(name)
      [] type \in {"circle", "ellipse"} -> CircleCreate(name)
      [] type \in {"rectangle", "rect"} -> RectangleCreate(name)
      [] type = "line" -> LineCreate(name)
      [] OTHER -> Shape("polygon", name)

IsObjectType(type) == \E i \in 1..Len(objectTypeKeys) : objectTypeKeys[i] = type

\* varNamingRule.test(name): the pattern is not anchored, so it asks for a
\* letter followed by a letter, digit or underscore anywhere in the name
varNamingRule(name) ==
    \E i \in 1..(Len(name) - 1) :
        /\ IsLetter(Ch(name, i))
        /\ LET c == Ch(name, i + 1) IN IsLetter(c) \/ IsDigit(c) \/ c = "_"

\* generateName of ./util: a name no object of the registry has
generateName(its) ==
    LET free == {k \in 1..(Cardinality(DOMAIN its) + 1) : ("object" \o ToString(k)) \notin DOMAIN its}
    IN  "object" \o ToString(CHOOSE k \in free : \A j \in free : k <= j)

(***************************************************************************)
(* part_000: the script's state.  The operations below are functions of a  *)
(* record g of the globals                                                 *)
(*   items, timers, lastConsoleLineNumber, lineNumber, withObjName         *)
(* and of what they reach in the page and the host                         *)
(*   console   the children of the console element, oldest first           *)
(*   svg       the names of the shapes whose elements are children of svg  *)
(*   pending   the timeouts that were set and have neither fired nor been  *)
(*             cleared                                                     *)
(*   cur, at   the run (the number of the render call) and the index of    *)
(*             the script line whose code is being executed; a console     *)
(*             entry and a timeout record the run they come from           *)
(* and return a record [g |-> the globals after the call, ret |-> the      *)
(* value returned].                                                        *)
(***************************************************************************)
Ret(g, v) == [g |-> g, ret |-> v]

HasItem(g, varName) == JsString(varName) \in DOMAIN g.items
Item(g, varName) == g.items[JsString(varName)]
SetItem(g, name, o) ==
    [g EXCEPT !.items = [n \in DOMAIN g.items \cup {name} |-> IF n = name THEN o ELSE g.items[n]]]
DeleteItems(g, names) ==
    [g EXCEPT !.items = [n \in DOMAIN g.items \ names |-> g.items[n]]]

\* svg.appendChild(element): an element that is a child already moves last
appendChild(g, name) ==
    [g EXCEPT !.svg = Append(SelectSeq(g.svg, LAMBDA n : n # name), name)]

log(g, message) ==
    [g EXCEPT
        !.console = Append(@,
            [line |-> g.lineNumber,
             lineNumber |-> IF g.lastConsoleLineNumber = g.lineNumber
                            THEN "" ELSE ToString(g.lineNumber),
             message |-> message,
             run |-> g.cur]),
        !.lastConsoleLineNumber = g.lineNumber]

\* a mutant of cleanCommand: the selection is inserted before the first word
cleanCommandInsertsFirst(g, line) ==
    LET words == Split(Trim(line), " ")
        out == SelectSeq(words, LAMBDA w : w # " ")
    IN  IF Len(line) > 0 /\ IsSpace(Ch(line, 1))
        THEN <<JsString(g.withObjName)>> \o out
        ELSE out

\* line.trim().split(' '), then the selection inserted after the first word
\* when the line starts with white space
cleanCommand(g, line) ==
    LET words == Split(Trim(line), " ")
        out == SelectSeq(words, LAMBDA w : w # " ")
    IN  IF Len(line) > 0 /\ IsSpace(Ch(line, 1))
        THEN <<out[1]>> \o <<JsString(g.withObjName)>> \o Tail(out)
        ELSE out

\* a mutant of create: a name already present is not refused
createOverwrites(g, varName0, type) ==
    LET varName == IF Truthy(varName0) THEN varName0 ELSE generateName(g.items)
    IN  IF ~varNamingRule(varName)
        THEN Ret(log(g, "Name of your object must start with a letter and contain only letters, numbers or underscore."), JsUndefined)
        ELSE IF ~Truthy(type)
        THEN Ret(log(g, "You must set a type of object to create, like this: create text called title"), JsUndefined)
        ELSE IF ~IsObjectType(type)
        THEN Ret(log(g, type \o " not a valid object type, must be one of these: "
                        \o Join(objectTypeKeys, ", ")), JsUndefined)
        ELSE LET g1 == SetItem(g, varName, objectTypes(type, varName))
                 g2 == [g1 EXCEPT !.withObjName = varName]
                 g3 == appendChild(g2, varName)
             IN  Ret(log(g3, "Created " \o type \o " object called " \o varName), varName)

create(g, varName0, type) ==
    LET varName == IF Truthy(varName0) THEN varName0 ELSE generateName(g.items)
    IN  IF HasItem(g, varName)
        THEN Ret(log(g, "There is already an object called " \o varName
                        \o ", you can't use the same name."), JsUndefined)
        ELSE IF ~varNamingRule(varName)
        THEN Ret(log(g, "Name of your object must start with a letter and contain only letters, numbers or underscore."), JsUndefined)
        ELSE IF ~Truthy(type)
        THEN Ret(log(g, "You must set a type of object to create, like this: create text called title"), JsUndefined)
        ELSE IF ~IsObjectType(type)
        THEN Ret(log(g, type \o " not a valid object type, must be one of these: "
                        \o Join(objectTypeKeys, ", ")), JsUndefined)
        ELSE LET g1 == SetItem(g, varName, objectTypes(type, varName))
                 g2 == [g1 EXCEPT !.withObjName = varName]
                 g3 == appendChild(g2, varName)
             IN  Ret(log(g3, "Created " \o type \o " object called " \o varName), varName)

getItem(g, varName) ==
    IF HasItem(g, varName)
    THEN Ret(g, JsString(varName))
    ELSE Ret(log(g, "There was no object called " \o JsString(varName) \o "."), JsNull)

clone(g, fromVarName, toVarName) ==
    LET f == getItem(g, fromVarName)
    IN  IF f.ret = JsNull THEN Ret(f.g, JsUndefined)
        ELSE LET fromObject == Item(f.g, f.ret)
                 c == create(f.g, toVarName, fromObject.type)
             IN  IF c.ret = JsUndefined THEN Ret(c.g, JsUndefined)
                 ELSE LET o1 == ShapeMoveTo(Item(c.g, c.ret), ShapeX(fromObject), ShapeY(fromObject))
                          o2 == ShapeSizeTo(o1, ShapeWidth(fromObject), ShapeHeight(fromObject))
                          o3 == ShapeSetFill(o2, ShapeFill(fromObject))
                          o4 == ShapeSetStroke(o3, fromObject.stroke.color, fromObject.stroke.width)
                          g1 == SetItem(c.g, c.ret, o4)
                          g2 == [g1 EXCEPT !.withObjName = toVarName]
                          g3 == appendChild(g2, c.ret)
                      IN  Ret(log(g3, "Duplicated " \o JsString(fromVarName) \o " as "
                                      \o JsString(toVarName)), c.ret)

paint(g, varName, color) ==
    LET f == getItem(g, varName)
    IN  IF f.ret = JsNull THEN Ret(f.g, JsUndefined)
        ELSE LET g1 == SetItem(f.g, f.ret, ShapeSetFill(Item(f.g, f.ret), color))
                 g2 == [g1 EXCEPT !.withObjName = varName]
             IN  Ret(log(g2, "Painting " \o JsString(varName) \o " " \o JsString(color)), JsUndefined)

\* a value no line yields: the promise that the timeout id resolves
Promise(id) == "promise " \o ToString(id)
IsPromise(v) == Len(v) > 8 /\ SubSeq(v, 1, 8) = "promise "
\* a value no line yields: the call threw a TypeError
JsThrow == "TypeError thrown"

\* the handle setTimeout returns: one that names no timeout the script holds
NewTimer(g) ==
    LET used == {t.id : t \in g.pending} \cup {g.timers[i] : i \in 1..Len(g.timers)}
    IN  CHOOSE id \in 1..(Cardinality(used) + 1) :
            id \notin used /\ \A j \in 1..(Cardinality(used) + 1) : j \notin used => id <= j

\* /^(seconds?|sec|s)$/i.test(unitName)
IsSecondsUnit(unitName) ==
    ToLower(JsString(unitName)) \in {"second", "seconds", "sec", "s"}

\* the delay wait passes to setTimeout, a number
waitMs(n, unitName) ==
    LET factor == IF IsSecondsUnit(unitName) THEN Num(1000) ELSE Num(1)
    IN  NumMul(IF NumGt(ToNumber(n), Num(0)) THEN ToNumber(n) ELSE Num(1000), factor)

\* wait up to its return: the log entry, and the timeout set and kept
waitStart(g, n, unitName) ==
    LET units == IF IsSecondsUnit(unitName) THEN "second" ELSE "millisecond"
        label == JsString(n) \o " " \o units
                 \o (IF NumGt(ToNumber(n), Num(1)) THEN "s" ELSE "")
        g1 == log(g, "Waiting for " \o label)
        id == NewTimer(g1)
    IN  [g1 EXCEPT
            !.pending = @ \cup {[id |-> id, ms |-> waitMs(n, unitName).n,
                                 message |-> label \o " timer finished",
                                 run |-> g.cur, line |-> g.at]},
            !.timers = Append(@, id)]

\* a mutant of wait: the promise is not returned
waitNoPromise(g, n, unitName) == Ret(waitStart(g, n, unitName), JsUndefined)

\* the promise returned resolves when the timeout pushed last fires
wait(g, n, unitName) ==
    LET g2 == waitStart(g, n, unitName)
    IN  Ret(g2, Promise(g2.timers[Len(g2.timers)]))

remove(g, varName) ==
    LET f == getItem(g, varName)
    IN  IF f.ret # JsNull
        THEN LET g1 == [f.g EXCEPT !.svg = SelectSeq(@, LAMBDA n : n # f.ret)]
                 g2 == DeleteItems(g1, {JsString(varName), JsString(varName) \o ".text"})
             IN  Ret(log(g2, "Removing object called " \o JsString(varName)), JsUndefined)
        ELSE Ret(log(f.g, "There was no object called " \o JsString(varName)), JsUndefined)

\* text is the sequence of the words written
write(g, varName, text) ==
    LET f == getItem(g, varName)
    IN  IF f.ret = JsNull THEN Ret(f.g, JsUndefined)
        ELSE LET g1 == SetItem(f.g, f.ret, ShapeSetText(Item(f.g, f.ret), Join(text, " ")))
             IN  Ret(log(g1, "Wrote \"" \o Join(text, ",") \o "\" in " \o JsString(varName)),
                     JsUndefined)

setStroke(g, varName, color, width) ==
    LET f == getItem(g, varName)
    IN  IF f.ret = JsNull THEN Ret(f.g, JsUndefined)
        ELSE LET g1 == SetItem(f.g, f.ret, ShapeSetStroke(Item(f.g, f.ret), color, width))
             IN  Ret(log(g1, "Set " \o JsString(varName) \o " stroke color to " \o JsString(color)
                             \o " and width to " \o NumString(width)), JsUndefined)

moveTo(g, varName, x, y) ==
    LET f == getItem(g, varName)
    IN  IF f.ret = JsNull THEN Ret(f.g, JsUndefined)
        ELSE LET o == ShapeMoveTo(Item(f.g, f.ret), x, y)
             IN  Ret(log(SetItem(f.g, f.ret, o), "Moved " \o JsString(varName) \o " to "
                         \o NumString(ShapeX(o)) \o "," \o NumString(ShapeY(o))), JsUndefined)

moveBy(g, varName, x, y) ==
    LET f == getItem(g, varName)
    IN  IF f.ret = JsNull THEN Ret(f.g, JsUndefined)
        ELSE LET o == ShapeMoveBy(Item(f.g, f.ret), x, y)
             IN  Ret(log(SetItem(f.g, f.ret, o), "Moved " \o JsString(varName) \o " to "
                         \o NumString(ShapeX(o)) \o "," \o NumString(ShapeY(o))), JsUndefined)

sizeTo(g, varName, x, y) ==
    LET f == getItem(g, varName)
    IN  IF f.ret = JsNull THEN Ret(f.g, JsUndefined)
        ELSE LET o == ShapeSizeTo(Item(f.g, f.ret), x, y)
             IN  Ret(log(SetItem(f.g, f.ret, o), "Sized " \o JsString(varName) \o " to "
                         \o NumString(ShapeWidth(o)) \o "," \o NumString(ShapeHeight(o))), JsUndefined)

sizeBy(g, varName, x, y) ==
    LET f == getItem(g, varName)
    IN  IF f.ret = JsNull THEN Ret(f.g, JsUndefined)
        ELSE LET o == ShapeSizeBy(Item(f.g, f.ret), x, y)
             IN  Ret(log(SetItem(f.g, f.ret, o), "Sized " \o JsString(varName) \o " to "
                         \o NumString(ShapeWidth(o)) \o "," \o NumString(ShapeHeight(o))), JsUndefined)

\* no variant of shape.ts has a setPoints method: the call on an object
\* that exists throws
setPoints(g, varName, points) ==
    LET f == getItem(g, varName)
    IN  IF f.ret = JsNull THEN Ret(f.g, JsUndefined) ELSE Ret(f.g, JsThrow)

\* a mutant of reset: the timeouts are forgotten but not cleared
resetKeepsTimeouts(g) ==
    [g EXCEPT
        !.svg = <<>>,
        !.items = [n \in {} |-> 0],
        !.lineNumber = 0,
        !.timers = <<>>,
        !.withObjName = JsNull]

\* a mutant of reset: the registry is not emptied
resetKeepsItems(g) ==
    [g EXCEPT
        !.svg = <<>>,
        !.lineNumber = 0,
        !.pending = {t \in @ : \A i \in 1..Len(g.timers) : g.timers[i] # t.id},
        !.timers = <<>>,
        !.withObjName = JsNull]

\* clearTimeout of every handle in timers, and the globals emptied
reset(g) ==
    [g EXCEPT
        !.svg = <<>>,
        !.items = [n \in {} |-> 0],
        !.lineNumber = 0,
        !.pending = {t \in @ : \A i \in 1..Len(g.timers) : g.timers[i] # t.id},
        !.timers = <<>>,
        !.withObjName = JsNull]

\* a mutant of setWith: the name is selected without being looked up
setWithUnchecked(g, varName) ==
    Ret(log([g EXCEPT !.withObjName = varName],
            "Set currently selected object as " \o JsString(varName)), JsUndefined)

setWith(g, varName) ==
    LET f == getItem(g, varName)
    IN  IF f.ret = JsNull THEN Ret(f.g, JsUndefined)
        ELSE Ret(log([f.g EXCEPT !.withObjName = varName],
                     "Set currently selected object as " \o JsString(varName)), JsUndefined)

commandNames ==
    {"paint", "remove", "new", "clone", "write", "reset", "width", "height", "left",
     "top", "outline", "with", "move", "position", "points", "size", "grow", "wait"}

\* commands[action](words), for an action of commandNames
commands(g, action, words) ==
    CASE action = "paint" -> paint(g, At(words, 1), At(words, 2))
      [] action = "remove" -> remove(g, At(words, 1))
      [] action = "new" -> create(g, At(words, 2), At(words, 1))
      [] action = "clone" -> clone(g, At(words, 1), At(words, 2))
      [] action = "write" -> write(g, At(words, 1), Slice(words, 2))
      [] action = "reset" -> Ret(reset(g), JsUndefined)
      [] action = "width" -> sizeTo(g, At(words, 1), ToNumber(At(words, 2)), Null)
      [] action = "height" -> sizeTo(g, At(words, 1), Null, ToNumber(At(words, 2)))
      [] action = "left" -> moveTo(g, At(words, 1), ToNumber(At(words, 2)), Null)
      [] action = "top" -> moveTo(g, At(words, 1), Null, ToNumber(At(words, 2)))
      [] action = "outline" ->
            setStroke(g, At(words, 1), At(words, 2), NumOr(ToNumber(At(words, 3)), Num(1)))
      [] action = "with" -> setWith(g, At(words, 1))
      [] action = "move" ->
            moveBy(g, At(words, 1), ToNumber(At(words, 2)), ToNumber(At(words, 3)))
      [] action = "position" ->
            moveTo(g, At(words, 1), ToNumber(At(words, 2)), ToNumber(At(words, 3)))
      [] action = "points" -> setPoints(g, At(words, 1), Slice(words, 2))
      [] action = "size" ->
            sizeTo(g, At(words, 1), ToNumber(At(words, 2)), ToNumber(At(words, 3)))
      [] action = "grow" ->
            sizeBy(g, At(words, 1), ToNumber(At(words, 2)), ToNumber(At(words, 3)))
      [] action = "wait" -> wait(g, At(words, 1), At(words, 2))

\* commands is an object literal, so commands[action] also finds what the
\* object inherits from Object.prototype; the names the model's scripts use
inheritedNames == {"__proto__", "constructor", "toString", "valueOf", "hasOwnProperty"}

\* a value no line yields: an object that is not a promise
JsObject == "object value"

\* command(words) for an inherited property, called without a receiver in
\* module (strict) code: __proto__ is Object.prototype, which is not callable;
\* valueOf and hasOwnProperty convert their undefined receiver to an object,
\* which throws; constructor is Object, which returns words; toString
\* answers for an undefined receiver
inherited(action) ==
    CASE action \in {"__proto__", "valueOf", "hasOwnProperty"} -> JsThrow
      [] action = "constructor" -> JsObject
      [] action = "toString" -> "[object Undefined]"

\* the callback render passes to forEachPromise, applied to one line
processLine(g, line) ==
    LET g1 == [g EXCEPT !.lineNumber = @ + 1]
    IN  IF Len(line) = 0 THEN Ret(g1, JsUndefined)
        ELSE LET g2 == log(g1, line)
                 words == cleanCommand(g2, line)
                 action == IF At(words, 0) = " " THEN At(words, 1) ELSE At(words, 0)
             IN  IF action \in commandNames
                 THEN commands(g2, action, words)
                 ELSE IF action \in inheritedNames
                 THEN Ret(g2, inherited(action))
                 ELSE Ret(log(g2, "Invalid command: " \o JsString(action)), JsUndefined)

(***************************************************************************)
(* The scripts the user may have in the text area.                         *)
(***************************************************************************)
\* the script the page starts with when nothing was stored
DefaultScript == "new rectangle background\n  size 640 480\n  paint black\n"

\* the end-to-end example of the specification
ExampleScript == "new rectangle r\n  size 10 20\n  paint red\n"

\* the lines of which every script of up to MaxLines lines is made
Lines ==
    {"new rectangle bg", "clone bg b2", "  paint red", "wait 2 seconds", "remove bg", ""}

\* wait lines: every count with every unit
WaitCounts == {"", " 5", " 2", " 1", " 0", " -3", " abc"}
WaitUnits == {"", " seconds", " second", " sec", " s", " SEC", " Seconds", " ms", " minutes"}
WaitScripts == {"wait" \o n \o u : n \in WaitCounts, u \in WaitUnits}

\* creations under names that match and that do not match the naming pattern
Names == {"1abc", "r", "ab", "a_1", "_ab", "a-b", "x", "9", "a1!", "Zz"}
NameScripts == {"new rect " \o nm : nm \in Names}

\* clones of each variant, and changes to the source and to the copy after
CloneScripts ==
    {"new line ln\n  paint red\nclone ln l2",
     "new line ln\nclone ln l2\n  paint red",
     "new line ln\n  outline blue 2\nclone ln l2",
     "new circle c1\n  outline blue 2\nclone c1 c2\nmove c1 5 5",
     "new text t1\n  position 3 4\nclone t1 t2\n  grow 1 1",
     "new rect bg\n  paint red\nclone bg b2\noutline bg green",
     "new rect bg\nclone bg b2\npaint bg blue\nsize b2 7 8",
     "new rect bg\nclone bg b2\nwith bg\n  move 1 2"}

\* creations under a name that is taken
DuplicateScripts ==
    {"new rectangle bg\nnew circle bg",
     "new rect bg\n  size 10 20\nnew rect bg",
     "new line ln\n  paint red\nclone ln l2\nclone ln l2",
     "new text t1\nnew circle c1\nclone t1 c1"}

\* every command as an indented line, after a line that sets the selection
IndentedLines ==
    {"  paint red", "  remove", "  new circle", "  clone b2", "  write hi there",
     "  reset", "  width 5", "  height 5", "  left 5", "  top 5", "  outline blue 2",
     "  with", "  move 1 2", "  position 3 4", "  points 1,2", "  size 1 2",
     "  grow 1 1", "  wait 5", "  bogus", "\tpaint  red", " paint"}
IndentScripts == {"new rect bg\n" \o l : l \in IndentedLines}

\* a line of every error kind, lines whose keyword names a property that
\* commands inherits and a points line, each followed by lines that succeed
ErrorScripts ==
    {"bogus\nnew rect bg", "remove nope\nnew rect bg", "new\nnew rect bg",
     "new blob bg\nnew rect bg", "paint nope red\nnew rect bg",
     "new rect bg\nclone nope b2\n  paint red", "new rect bg\nclone bg a-b\n  paint red",
     "new rect a-b\nnew rect bg", "size\nnew rect bg", "with nope\nnew rect bg",
     "__proto__\nnew rect bg", "new rect bg\nvalueOf\n  paint red",
     "constructor\nnew rect bg", "toString\nnew rect bg",
     "new rect bg\n  hasOwnProperty\n  paint red", "new rect bg\n  points 1,2\n  paint red"}

\* moves and resizes with numeric arguments that are missing or are not
\* numeric text, of a rectangle and of a circle
NumberLines ==
    {"  move abc 2", "  move 5", "  position 3", "  position x y", "  left", "  top zz",
     "  size 5", "  size w 7", "  grow 1", "  grow 1 z", "  width", "  height abc",
     "  move -1 2", "  size 10 20", "  position 3 4\n  size 10 20", "  size 7 9\n  left 5",
     "  grow 3 3\n  move 2 2", "  top 6\n  height 4"}
NumberScripts == {"new " \o t \o " bg\n" \o l : t \in {"rect", "circle"}, l \in NumberLines}

\* scripts with the reset command before other lines
ResetScripts ==
    {"new rect bg\nreset\nnew circle c1", "reset\nnew rect bg", "reset\nreset\nbogus",
     "new rect bg\n  reset\nwait 5", "wait 5\nreset\nwait 2 seconds",
     "new rect bg\nreset\n  paint red", "\nreset\nnew rect bg"}

Scripts ==
    {Join(ls, "\n") : ls \in UNION {[1..n -> Lines] : n \in 1..MaxLines}}
    \cup {DefaultScript, ExampleScript}
    \cup WaitScripts \cup NameScripts \cup CloneScripts \cup DuplicateScripts
    \cup IndentScripts \cup ErrorScripts \cup NumberScripts
    \cup ResetScripts

\* what the user may change the text area to before clicking run again
RerunScripts ==
    {"new rectangle bg\nwait 2 seconds\n  paint red",
     "wait 5\nnew circle bg\nwait 0 seconds",
     "new rectangle bg\nnew circle bg",
     "  paint red",
     ""}

(***************************************************************************)
(* The state.                                                              *)
(***************************************************************************)
VARIABLES
    innerText,              \* code.innerText, the text area
    lastRunCode,            \* localStorage's lastRunCode, JsNull while unset
    items,                  \* the registry: name -> shape
    timers,                 \* the handles of the timeouts set since the last reset
    lastConsoleLineNumber,
    lineNumber,
    withObjName,            \* the selection, JsNull while unset
    console,                \* the console element's entries
    svg,                    \* the names of the shapes drawn
    pending,                \* the host's timeouts yet to fire
    chains,                 \* the promise chains of forEachPromise in flight
    run,                    \* the number of render calls so far
    events,                 \* what happened since the last render call began:
                            \* "reset" (line: the number of timeouts it cleared),
                            \* "save", "line" and "fire" (line: the script line)
    last                    \* the last step taken, with the globals before it

globals == <<items, timers, lastConsoleLineNumber, lineNumber, withObjName, console, svg, pending>>
vars == <<innerText, lastRunCode, globals, chains, run, events, last>>

\* the globals as the record the operations take, while line k of run r runs
G(r, k) ==
    [items |-> items, timers |-> timers, lastConsoleLineNumber |-> lastConsoleLineNumber,
     lineNumber |-> lineNumber, withObjName |-> withObjName, console |-> console,
     svg |-> svg, pending |-> pending, cur |-> r, at |-> k]

SetG(g) ==
    /\ items' = g.items
    /\ timers' = g.timers
    /\ lastConsoleLineNumber' = g.lastConsoleLineNumber
    /\ lineNumber' = g.lineNumber
    /\ withObjName' = g.withObjName
    /\ console' = g.console
    /\ svg' = g.svg
    /\ pending' = g.pending

(***************************************************************************)
(* forEachPromise of ./util, from the specification: the lines are run in  *)
(* order by a chain of promises, each line in a microtask of its own; a    *)
(* line whose callback returns a promise holds the chain until the promise *)
(* resolves.  A chain is the record of its run, its lines, the index of    *)
(* the next line and the promise it awaits ("" when its next line is       *)
(* queued as a microtask).                                                 *)
(***************************************************************************)
forEachPromise(r, lines) == [run |-> r, lines |-> lines, next |-> 1, awaiting |-> ""]

\* the chain after its line returned ret: it awaits a promise returned, it is
\* rejected (and dropped) when the line threw, and it ends after the last line
Advance(c, ret) ==
    IF ret = JsThrow THEN {}
    ELSE IF IsPromise(ret) THEN {[c EXCEPT !.next = @ + 1, !.awaiting = ret]}
    ELSE IF c.next = Len(c.lines) THEN {}
    ELSE {[c EXCEPT !.next = @ + 1]}

\* the chain after the promise it awaited resolved
Resume(c) ==
    IF c.next > Len(c.lines) THEN {} ELSE {[c EXCEPT !.awaiting = ""]}

\* a chain that awaits a timeout that was cleared can never go on
Live(chs, pend) ==
    {c \in chs : c.awaiting = "" \/ \E t \in pend : Promise(t.id) = c.awaiting}

\* no microtask is queued: the host takes the next event
HostIdle == \A c \in chains : c.awaiting # ""

(***************************************************************************)
(* part_000: render.                                                       *)
(***************************************************************************)
\* the globals after reset() and the console emptied
renderReset(g) == [reset(g) EXCEPT !.console = <<>>]

\* a mutant of renderSave: the text of the run is not what is stored
renderSaveNothing(text) == ""

\* what render stores in localStorage
renderSave(text) == text

Render(text) ==
    LET g1 == renderReset(G(run + 1, 0))
        lines == Split(text, "\n")
    IN  /\ innerText' = text
        /\ SetG(g1)
        /\ chains' = Live(chains, g1.pending) \cup {forEachPromise(run + 1, lines)}
        /\ lastRunCode' = renderSave(text)
        /\ run' = run + 1
        /\ events' = <<[ev |-> "reset", run |-> run + 1,
                         line |-> Cardinality(pending) - Cardinality(g1.pending)],
                        [ev |-> "save", run |-> run + 1, line |-> 0]>>
        /\ last' = [kind |-> "render", line |-> "", index |-> 0, run |-> run + 1,
                    before |-> [items |-> DOMAIN items # {}, pending |-> pending # {},
                                withObjName |-> withObjName # JsNull,
                                lineNumber |-> lineNumber # 0]]

\* the render() call that ends the module's loading
Load ==
    /\ run = 0
    /\ Render(innerText)

\* the user clicks run, after editing the text area or leaving it as it is
ClickRun ==
    /\ run >= 1
    /\ run < MaxRuns
    /\ HostIdle
    /\ \E text \in {innerText} \cup RerunScripts : Render(text)

\* a microtask: the next line of a chain
Step ==
    \E c \in chains :
        /\ c.awaiting = ""
        /\ LET r == processLine(G(c.run, c.next), c.lines[c.next])
           IN  /\ SetG(r.g)
               /\ chains' = Live((chains \ {c}) \cup Advance(c, r.ret), r.g.pending)
               /\ events' = Append(events, [ev |-> "line", run |-> c.run, line |-> c.next])
               /\ last' = [kind |-> "line", line |-> c.lines[c.next], index |-> c.next,
                           run |-> c.run, before |-> G(c.run, c.next)]
        /\ UNCHANGED <<innerText, lastRunCode, run>>

\* a timeout set by wait fires: its callback logs and resolves the promise
TimerFire ==
    \E t \in pending :
        /\ HostIdle
        /\ LET g1 == log([G(t.run, t.line) EXCEPT !.pending = @ \ {t}], t.message)
               waiters == {c \in chains : c.awaiting = Promise(t.id)}
           IN  /\ SetG(g1)
               /\ chains' = (chains \ waiters) \cup UNION {Resume(c) : c \in waiters}
               /\ events' = Append(events, [ev |-> "fire", run |-> t.run, line |-> t.line])
               /\ last' = [kind |-> "fire", line |-> "", index |-> t.line, run |-> t.run,
                           before |-> G(t.run, t.line)]
        /\ UNCHANGED <<innerText, lastRunCode, run>>

Init ==
    /\ lastRunCode \in {JsNull} \cup Scripts
    /\ innerText = IF Truthy(lastRunCode) THEN lastRunCode ELSE DefaultScript
    /\ items = [n \in {} |-> 0]
    /\ timers = <<>>
    /\ lastConsoleLineNumber = 0
    /\ lineNumber = 0
    /\ withObjName = JsNull
    /\ console = <<>>
    /\ svg = <<>>
    /\ pending = {}
    /\ chains = {}
    /\ run = 0
    /\ events = <<>>
    /\ last = [kind |-> "none", line |-> "", index |-> 0, run |-> 0, before |-> 0]

Next == Load \/ ClickRun \/ Step \/ TimerFire

Spec == Init /\ [][Next]_vars

(***************************************************************************)
(* Helpers of the properties.                                              *)
(***************************************************************************)
\* the lines of the script of the current run
ScriptLines == Split(innerText, "\n")

\* the indices in events of the events of kind ev
EventsOf(ev) == {i \in 1..Len(events) : events[i].ev = ev}

\* the line's first word is wait (the line is a wait command)
IsWaitLine(line) == Split(Trim(line), " ")[1] = "wait"

(***************************************************************************)
(* C1.  When render is invoked again while an earlier run is suspended in  *)
(* a wait, the earlier run's timeout is cancelled and its continuation     *)
(* never fires: from the new run's start on, every line executed, every    *)
(* timeout fired, every console entry, every chain in flight and every     *)
(* timeout pending belongs to the new run.                                 *)
(***************************************************************************)
\* C1: everything that happens after a render call is the new run's doing
C1_EarlierRunNeverResumes ==
    /\ \A i \in 1..Len(events) : events[i].run = run
    /\ \A i \in 1..Len(console) : console[i].run = run
    /\ \A c \in chains : c.run = run
    /\ \A t \in pending : t.run = run

\* a second run that began while the first was suspended in a wait (its
\* reset cleared a timeout) has run to its end
C1_Witness ==
    /\ run >= 2
    /\ events[1].ev = "reset" /\ events[1].line >= 1
    /\ chains = {}
    /\ EventsOf("line") # {}
    /\ EventsOf("fire") # {}

(***************************************************************************)
(* C2.  Within one run the lines are executed in source order, each once:  *)
(* the k-th line executed is line k of the script; and the line after a    *)
(* wait command is not executed before that wait's timeout has fired.      *)
(***************************************************************************)
\* C2: lines run in source order, and the line after a wait runs after its
\* timeout fired
C2_StrictSourceOrder ==
    \A i \in EventsOf("line") :
        LET k == events[i].line
        IN  /\ k = Cardinality({j \in EventsOf("line") : j < i}) + 1
            /\ k <= Len(ScriptLines)
            /\ (k > 1 /\ IsWaitLine(ScriptLines[k - 1]))
                   => \E j \in EventsOf("fire") : j < i /\ events[j].line = k - 1

\* a line was executed after the wait before it had its timeout fire
C2_Witness ==
    \E i \in EventsOf("line"), j \in EventsOf("fire") :
        /\ j < i
        /\ events[j].line = events[i].line - 1
        /\ IsWaitLine(ScriptLines[events[j].line])

(***************************************************************************)
(* C3.  The delay of `wait N [unit]` is N ms without a seconds unit and    *)
(* N * 1000 ms with one (second, seconds, sec, s, in any case); whatever   *)
(* the unit, a missing or non-positive N gives exactly 1000 ms.            *)
(***************************************************************************)
\* the delay the claim gives a wait line that is not indented
C3_ClaimedDelay(line) ==
    LET ws == Split(line, " ")
        N == ToNumber(At(ws, 1))
        seconds == ToLower(JsString(At(ws, 2))) \in {"second", "seconds", "sec", "s"}
    IN  IF At(ws, 1) = JsUndefined \/ N.n <= 0 THEN 1000
        ELSE IF seconds THEN N.n * 1000 ELSE N.n

\* the wait lines the claim is about: N is missing or an integer
C3_Covers(line) ==
    LET ws == Split(line, " ")
    IN  /\ ws[1] = "wait"
        /\ At(ws, 1) = JsUndefined \/ ToNumber(At(ws, 1)).k = "num"

\* C3: every pending timeout of a wait line has the delay claimed
C3_WaitDelay ==
    \A t \in pending :
        (t.run = run /\ C3_Covers(ScriptLines[t.line]))
            => t.ms = C3_ClaimedDelay(ScriptLines[t.line])

(***************************************************************************)
(* C4.  As claimed: the script text is stored only after the last line of  *)
(* the run was executed.                                                   *)
(* As amended: the run invocation itself stores the text, once, without    *)
(* waiting for the lines: from the invocation on the stored text is the    *)
(* text of the run, and the store precedes the firing of every timeout of  *)
(* the run, so every line after a wait is executed after it.               *)
(***************************************************************************)
\* C4 as claimed: once the text is stored, every line of the run was executed
C4_SavedAfterLastLine ==
    EventsOf("save") # {} => Cardinality(EventsOf("line")) = Len(ScriptLines)

\* C4 as amended: the text of the run is stored from the invocation on, once,
\* and before any timeout of the run fires
C4_SavedByTheRunInvocation ==
    run >= 1 =>
        /\ lastRunCode = innerText
        /\ Cardinality(EventsOf("save")) = 1
        /\ \A i \in EventsOf("save"), j \in EventsOf("fire") : i < j

\* a line after a wait was executed after the text was stored
C4_Witness ==
    \E i \in EventsOf("save"), j \in EventsOf("fire"), k \in EventsOf("line") :
        i < j /\ j < k /\ lastRunCode = innerText

(***************************************************************************)
(* C5.  At the start of every run, before its first line is executed, the  *)
(* registry is empty, the line counter is 0, the selection is unset and no *)
(* timeout is pending or kept, whatever the run before left behind.        *)
(***************************************************************************)
\* C5: right after render's reset nothing of an earlier run is left
C5_RunStartsFromNothing ==
    last.kind = "render" =>
        /\ DOMAIN items = {}
        /\ svg = <<>>
        /\ lineNumber = 0
        /\ withObjName = JsNull
        /\ pending = {}
        /\ timers = <<>>

\* a run starts after one that left shapes, a selection, a line count and a
\* pending timeout
C5_Witness ==
    /\ last.kind = "render"
    /\ run >= 2
    /\ last.before.items
    /\ last.before.withObjName
    /\ last.before.lineNumber
    /\ last.before.pending

(***************************************************************************)
(* The last line executed, as the words its command received.              *)
(***************************************************************************)
LastIsLine == last.kind = "line" /\ Len(last.line) > 0
LastWords == cleanCommand(last.before, last.line)
LastAction == At(LastWords, 0)
\* the entries the last line added to the console, after its echo
LastMessages ==
    [i \in 1..(Len(console) - Len(last.before.console) - 1) |->
        console[Len(last.before.console) + 1 + i].message]

(***************************************************************************)
(* C6.  Creating a shape (new, or the target of clone) under a name that   *)
(* is in the registry fails with the duplicate-name message and changes    *)
(* neither the registry nor any shape nor the selection.                   *)
(***************************************************************************)
C6_NewDuplicate ==
    /\ LastIsLine
    /\ LastAction = "new"
    /\ Truthy(At(LastWords, 2))
    /\ At(LastWords, 2) \in DOMAIN last.before.items

C6_CloneDuplicate ==
    /\ LastIsLine
    /\ LastAction = "clone"
    /\ JsString(At(LastWords, 1)) \in DOMAIN last.before.items
    /\ Truthy(At(LastWords, 2))
    /\ At(LastWords, 2) \in DOMAIN last.before.items

\* C6: a creation under a name that is taken changes nothing and logs the
\* duplicate-name message
C6_DuplicateNameRejected ==
    (C6_NewDuplicate \/ C6_CloneDuplicate) =>
        /\ items = last.before.items
        /\ svg = last.before.svg
        /\ withObjName = last.before.withObjName
        /\ LastMessages = <<"There is already an object called " \o At(LastWords, 2)
                            \o ", you can't use the same name.">>

\* a circle was asked for under the name of a rectangle, which is kept
C6_Witness ==
    /\ C6_NewDuplicate
    /\ At(LastWords, 1) = "circle"
    /\ items[At(LastWords, 2)].type = "rect"

(***************************************************************************)
(* C7.  Creating a shape whose name does not match the naming pattern (a   *)
(* letter first, then letters, digits and underscores only) fails with the *)
(* invalid-name message and adds nothing to the registry.                  *)
(***************************************************************************)
\* the naming pattern as the claim states it
C7_MatchesPattern(name) ==
    /\ Len(name) >= 1
    /\ IsLetter(Ch(name, 1))
    /\ \A i \in 2..Len(name) :
           LET c == Ch(name, i) IN IsLetter(c) \/ IsDigit(c) \/ c = "_"

\* C7: a creation under a free name that does not match the pattern changes
\* nothing and logs the invalid-name message
C7_InvalidNameRejected ==
    ( /\ LastIsLine
      /\ LastAction = "new"
      /\ Truthy(At(LastWords, 2))
      /\ At(LastWords, 2) \notin DOMAIN last.before.items
      /\ ~C7_MatchesPattern(At(LastWords, 2)) )
    => /\ items = last.before.items
       /\ LastMessages = <<"Name of your object must start with a letter and contain only letters, numbers or underscore.">>

(***************************************************************************)
(* C8.  The run of the script `new rectangle r`, `  size 10 20`,           *)
(* `  paint red` ends with exactly one shape in the registry: a rectangle  *)
(* named r with extent (10, 20) and fill "red".                            *)
(***************************************************************************)
\* C8: when the run of the example script has ended, the registry holds the
\* rectangle r, sized and painted
C8_ExampleRun ==
    (run >= 1 /\ innerText = ExampleScript /\ chains = {}) =>
        /\ DOMAIN items = {"r"}
        /\ items["r"].type = "rect"
        /\ items["r"].points[2] = Point(Num(10), Num(20))
        /\ ShapeFill(items["r"]) = "red"

(***************************************************************************)
(* C9.  After a successful clone a b, b has the origin, extent, fill and   *)
(* stroke a had when cloned; and a later move, resize, paint or outline of *)
(* one shape leaves every other shape's origin, extent, fill and stroke    *)
(* as they were.                                                           *)
(***************************************************************************)
C9_Look(o) == [points |-> o.points, fill |-> ShapeFill(o), stroke |-> o.stroke]

C9_Cloned ==
    /\ LastIsLine
    /\ LastAction = "clone"
    /\ JsString(At(LastWords, 1)) \in DOMAIN last.before.items
    /\ JsString(At(LastWords, 2)) \notin DOMAIN last.before.items
    /\ JsString(At(LastWords, 2)) \in DOMAIN items

C9_Changed ==
    /\ LastIsLine
    /\ LastAction \in {"move", "position", "left", "top", "size", "grow", "width",
                       "height", "paint", "outline"}
    /\ JsString(At(LastWords, 1)) \in DOMAIN last.before.items

\* C9: a clone looks like its source, and changing one shape changes no other
C9_CloneIsAnIndependentCopy ==
    /\ C9_Cloned =>
           C9_Look(items[JsString(At(LastWords, 2))])
               = C9_Look(last.before.items[JsString(At(LastWords, 1))])
    /\ C9_Changed =>
           \A n \in DOMAIN items \ {JsString(At(LastWords, 1))} :
               n \in DOMAIN last.before.items
                   /\ C9_Look(items[n]) = C9_Look(last.before.items[n])

(***************************************************************************)
(* C10.  A line that begins with white space is executed as the same       *)
(* command with the selected object's name inserted as its first argument: *)
(* for a selection s, `  C args` changes the registry, the shapes, the     *)
(* selection and the timeouts, and logs, exactly as `C s args` does.       *)
(***************************************************************************)
C10_Indented ==
    /\ LastIsLine
    /\ IsSpace(Ch(last.line, 1))
    /\ Trim(last.line) # ""
    /\ last.before.withObjName # JsNull

\* the line `C s args` of the indented line `  C args`
C10_Explicit ==
    LET t == Trim(last.line)
        i == IndexOf(t, " ")
        s == JsString(last.before.withObjName)
    IN  IF i = 0 THEN t \o " " \o s
        ELSE SubSeq(t, 1, i - 1) \o " " \o s \o SubSeq(t, i, Len(t))

\* C10: the indented line did what the explicit line does from the same state
C10_IndentedLineIsShorthand ==
    C10_Indented =>
        LET r == processLine(last.before, C10_Explicit).g
        IN  /\ items = r.items
            /\ svg = r.svg
            /\ withObjName = r.withObjName
            /\ pending = r.pending
            /\ timers = r.timers
            /\ LastMessages =
                   [i \in 1..(Len(r.console) - Len(last.before.console) - 1) |->
                       r.console[Len(last.before.console) + 1 + i].message]

\* an indented line changed the selected shape
C10_Witness ==
    /\ C10_Indented
    /\ last.before.withObjName \in DOMAIN items
    /\ last.before.withObjName \in DOMAIN last.before.items
    /\ items[last.before.withObjName] # last.before.items[last.before.withObjName]

(***************************************************************************)
(* The error kinds of the specification's taxonomy that the last line      *)
(* executed meets, told from the state before it.                          *)
(***************************************************************************)
\* the commands whose first argument names the object they work on
ObjectCommands ==
    {"paint", "remove", "clone", "write", "width", "height", "left", "top", "outline",
     "with", "move", "position", "points", "size", "grow"}

\* UnknownCommand: the keyword is none of the command table
ErrUnknownCommand == LastIsLine /\ LastAction \notin commandNames

\* ObjectNotFound: the object named is not in the registry
ErrObjectNotFound ==
    /\ LastIsLine
    /\ LastAction \in ObjectCommands
    /\ JsString(At(LastWords, 1)) \notin DOMAIN last.before.items

\* DuplicateName, InvalidName, MissingType or UnknownType of a creation under
\* a name given
ErrCreate ==
    /\ LastIsLine
    /\ LastAction = "new"
    /\ \/ ~Truthy(At(LastWords, 1))
       \/ ~IsObjectType(At(LastWords, 1))
       \/ /\ Truthy(At(LastWords, 2))
          /\ \/ At(LastWords, 2) \in DOMAIN last.before.items
             \/ ~C7_MatchesPattern(At(LastWords, 2))

\* DuplicateName or InvalidName of the target of a clone
ErrCloneTarget ==
    /\ LastIsLine
    /\ LastAction = "clone"
    /\ JsString(At(LastWords, 1)) \in DOMAIN last.before.items
    /\ Truthy(At(LastWords, 2))
    /\ \/ At(LastWords, 2) \in DOMAIN last.before.items
       \/ ~C7_MatchesPattern(At(LastWords, 2))

LastFails == ErrUnknownCommand \/ ErrObjectNotFound \/ ErrCreate \/ ErrCloneTarget

\* what the callback returned for the last line
LastReturn == processLine(last.before, last.line).ret

(***************************************************************************)
(* C11.  A line that fails with an error of the taxonomy never halts the   *)
(* run: the callback does not throw, and when the line is not the last of  *)
(* the script the run goes on with the line after it.                      *)
(***************************************************************************)
\* C11: after a failing line no exception has escaped and the next line of
\* the script is the next to be executed
C11_ErrorNeverHalts ==
    LastFails =>
        /\ LastReturn # JsThrow
        /\ last.index < Len(ScriptLines) =>
               \E c \in chains :
                   c.run = last.run /\ c.next = last.index + 1 /\ c.awaiting = ""

(***************************************************************************)
(* C12.  A failing line adds exactly one entry to the console after the    *)
(* echo of the line, whatever the error kind and the command.              *)
(***************************************************************************)
\* C12: a failing line logs one entry after its echo
C12_OneErrorEntry == LastFails => Len(LastMessages) = 1

(***************************************************************************)
(* C13.  When a numeric argument of move, position, left, top, size, grow, *)
(* width or height is missing or is not numeric text, the axis it stands   *)
(* for keeps its value; and no coordinate of a Point is ever not-a-number. *)
(***************************************************************************)
\* the last line moved or resized a shape of the registry
C13_Numeric ==
    /\ LastIsLine
    /\ LastAction \in {"move", "position", "left", "top", "size", "grow", "width", "height"}
    /\ JsString(At(LastWords, 1)) \in DOMAIN last.before.items

\* the Point the command works on: 1 the origin, 2 the extent
C13_Point == IF LastAction \in {"move", "position", "left", "top"} THEN 1 ELSE 2

\* the arguments of each axis as the command reads them; Null for the axis a
\* one-axis command leaves alone
C13_ArgX ==
    IF LastAction \in {"top", "height"} THEN Null ELSE ToNumber(At(LastWords, 2))
C13_ArgY ==
    IF LastAction \in {"left", "width"} THEN Null
    ELSE IF LastAction \in {"top", "height"} THEN ToNumber(At(LastWords, 2))
    ELSE ToNumber(At(LastWords, 3))

\* C13: an argument that is not a number leaves its axis as it was, and every
\* coordinate of every shape is a number
C13_NotANumberIsNoOp ==
    /\ C13_Numeric =>
           LET n == JsString(At(LastWords, 1))
               p == items[n].points[C13_Point]
               b == last.before.items[n].points[C13_Point]
           IN  /\ C13_ArgX = NaN => p.x = b.x
               /\ C13_ArgY = NaN => p.y = b.y
    /\ \A n \in DOMAIN items : \A i \in 1..2 :
           items[n].points[i].x.k = "num" /\ items[n].points[i].y.k = "num"

(***************************************************************************)
(* shape.ts on its own: the four operations of a shape, applied to a shape *)
(* of each variant with every pair of arguments of OpValues.  The shape is *)
(* the registry's object "s", run counts the calls made, and last records  *)
(* the call made last: its arguments and the shape before it.              *)
(***************************************************************************)
\* a shape receives at most MaxOps calls
MaxOps == 2

\* the arguments of a call: null, numbers and NaN
OpValues == {Null, Num(-3), Num(5), NaN}

ShapeCall(kind, o, x, y) ==
    /\ run < MaxOps
    /\ items' = [items EXCEPT !["s"] = o]
    /\ run' = run + 1
    /\ last' = [kind |-> kind, line |-> "", index |-> 0, run |-> run + 1,
                before |-> [shape |-> items["s"], x |-> x, y |-> y]]
    /\ UNCHANGED <<innerText, lastRunCode, timers, lastConsoleLineNumber, lineNumber,
                   withObjName, console, svg, pending, chains, events>>

CallMoveTo == \E x \in OpValues, y \in OpValues : ShapeCall("moveTo", ShapeMoveTo(items["s"], x, y), x, y)
CallMoveBy == \E x \in OpValues, y \in OpValues : ShapeCall("moveBy", ShapeMoveBy(items["s"], x, y), x, y)
CallSizeTo == \E x \in OpValues, y \in OpValues : ShapeCall("sizeTo", ShapeSizeTo(items["s"], x, y), x, y)
CallSizeBy == \E x \in OpValues, y \in OpValues : ShapeCall("sizeBy", ShapeSizeBy(items["s"], x, y), x, y)

ShapeInit ==
    /\ \E o \in {TextCreate("s"), RectangleCreate("s"), CircleCreate("s"), LineCreate("s")} :
           items = [n \in {"s"} |-> o]
    /\ innerText = ""
    /\ lastRunCode = JsNull
    /\ timers = <<>>
    /\ lastConsoleLineNumber = 0
    /\ lineNumber = 0
    /\ withObjName = JsNull
    /\ console = <<>>
    /\ svg = <<>>
    /\ pending = {}
    /\ chains = {}
    /\ run = 0
    /\ events = <<>>
    /\ last = [kind |-> "none", line |-> "", index |-> 0, run |-> 0, before |-> 0]

ShapeNext == CallMoveTo \/ CallMoveBy \/ CallSizeTo \/ CallSizeBy

ShapeSpec == ShapeInit /\ [][ShapeNext]_vars

(***************************************************************************)
(* C14.  For every shape and every value v, moveTo(null, v) sets origin.y  *)
(* to v and leaves origin.x as it was, moveBy(null, v) adds v to origin.y  *)
(* and leaves origin.x as it was, and the same with a null y; sizeTo and   *)
(* sizeBy do the same on the extent.  No move changes the extent and no    *)
(* resize changes the origin.                                              *)
(***************************************************************************)
\* a call was made with exactly one null argument
C14_OneNull == last.kind # "none" /\ ((last.before.x = Null) # (last.before.y = Null))

\* the Point the call made last works on, and the one it must leave alone
C14_Target == IF last.kind \in {"moveTo", "moveBy"} THEN 1 ELSE 2
C14_Other == 3 - C14_Target

\* what the claim gives one axis: its value before, the argument, the result
C14_Axis(old, v) ==
    IF v = Null THEN old
    ELSE IF last.kind \in {"moveTo", "sizeTo"} THEN v
    ELSE NumAdd(old, v)

\* C14: a null argument leaves its axis alone, the other axis is set to (or
\* grows by) its argument, and the Point not worked on is as it was
C14_NullMeansUnchanged ==
    /\ C14_OneNull =>
           LET p == items["s"].points[C14_Target]
               b == last.before.shape.points[C14_Target]
           IN  /\ p.x = C14_Axis(b.x, last.before.x)
               /\ p.y = C14_Axis(b.y, last.before.y)
    /\ last.kind # "none" =>
           items["s"].points[C14_Other] = last.before.shape.points[C14_Other]

\* moveTo(null, 5) of a shape that an earlier call had moved off x = 0
C14_Witness ==
    /\ last.kind = "moveTo"
    /\ last.before.x = Null /\ last.before.y = Num(5)
    /\ last.before.shape.points[1] = Point(Num(-3), Num(-3))
    /\ items["s"].points[1] = Point(Num(-3), Num(5))
    /\ items["s"].points[2] = Point(Num(100), Num(100))

(***************************************************************************)
(* C15.  Every console entry written while line k of the script is         *)
(* processed (its echo, its messages, and the message of its wait's        *)
(* timeout) records the line number k, also in a script that holds the     *)
(* reset command.                                                          *)
(***************************************************************************)
\* the entries the last step (a line, or a timeout firing) wrote
LastEntries == (Len(last.before.console) + 1)..Len(console)

\* C15: what the step of line k wrote records line k
C15_EntriesRecordTheirLine ==
    last.kind \in {"line", "fire"} =>
        \A i \in LastEntries : console[i].line = last.index

(***************************************************************************)
(* C16.  At every moment at most one timeout is pending (set, and neither  *)
(* fired nor cleared), whatever the runs, re-runs and waits before.        *)
(***************************************************************************)
\* C16: at most one timeout is pending
C16_OneTimerPending == Cardinality(pending) <= 1

\* a re-run that cleared the pending timeout of the run before has had a
\* timeout of its own fire and waits for its second one
C16_Witness ==
    /\ run >= 2
    /\ events[1].ev = "reset" /\ events[1].line = 1
    /\ EventsOf("fire") # {}
    /\ Cardinality(pending) = 1
    /\ Len(timers) = 2

(***************************************************************************)
(* C17.  After every moveTo, moveBy, sizeTo or sizeBy of a Circle, the     *)
(* centre drawn (cx, cy) is origin + extent / 2 and the radii drawn        *)
(* (rx, ry) are extent / 2, for the origin and the extent the shape has    *)
(* after the call.                                                         *)
(***************************************************************************)
\* the attributes of a circle drawn where its origin and extent say
C17_Drawn(o) ==
    [cx |-> HalfString(NumAdd(NumMul(Num(2), ShapeX(o)), ShapeWidth(o))),
     cy |-> HalfString(NumAdd(NumMul(Num(2), ShapeY(o)), ShapeHeight(o))),
     rx |-> HalfString(ShapeWidth(o)),
     ry |-> HalfString(ShapeHeight(o))]

\* C17: after a call on a circle its centre and radii are drawn where its
\* origin and extent say
C17_CircleFollowsItsPoints ==
    (last.kind # "none" /\ items["s"].type = "ellipse") =>
        [a \in {"cx", "cy", "rx", "ry"} |-> items["s"].domElement.attrs[a]]
            = C17_Drawn(items["s"])

(***************************************************************************)
(* C18.  As claimed: the selection is unset or the name of a shape of the  *)
(* registry, at every moment.                                              *)
(* As amended: a step that changes the selection sets it to the name of a  *)
(* shape that is in the registry after the step, or unsets it; remove      *)
(* leaves the selection as it is, so the selection may name a shape that   *)
(* was removed after it was selected.                                      *)
(***************************************************************************)
\* the selection is unset: null, or the missing target name of a clone
C18_Unset == withObjName \in {JsNull, JsUndefined}

C19_FirstEntryShowsNumber ==
    /\ Len(console) >= 1 => console[1].lineNumber # ""
    /\ last.kind = "line" =>
           \A i \in LastEntries :
               console[i].lineNumber =
                   IF i = Len(last.before.console) + 1 THEN ToString(last.index) ELSE ""
    /\ last.kind = "fire" => \A i \in LastEntries : console[i].lineNumber = ""

(***************************************************************************)
(* The program under a fair host: a microtask that is queued is run, and a *)
(* timeout that is pending fires.  Clicks are up to the user.  The         *)
(* fairness of Step and of TimerFire is stated on the event each records,  *)
(* which is enabled, and taken, exactly when the action is.                *)
(***************************************************************************)
\* a Step, told by the event it records: of the steps of Next only Step
\* appends a "line" event, and it can whenever a chain has its line queued
StepTaken ==
    \E c \in chains :
        /\ c.awaiting = ""
        /\ events' = Append(events, [ev |-> "line", run |-> c.run, line |-> c.next])

\* a TimerFire, told by the event it records
TimerFired ==
    /\ HostIdle
    /\ \E t \in pending :
           events' = Append(events, [ev |-> "fire", run |-> t.run, line |-> t.line])

LiveSpec == Spec /\ WF_events(StepTaken) /\ WF_events(TimerFired)

(***************************************************************************)
(* C20.  A run that no later run supersedes eventually has every line of   *)
(* its script processed and no chain left in flight, provided every        *)
(* pending timeout fires.                                                  *)
(***************************************************************************)
\* the current run is over and every line of its script was processed
C20_Done == chains = {} /\ Cardinality(EventsOf("line")) = Len(ScriptLines)

\* C20: every run is superseded or ends with all its lines processed
C20_RunCompletes ==
    \A r \in 1..MaxRuns : (run = r) ~> (run > r \/ C20_Done)

====
